---- MODULE Spec2Model ----
(***************************************************************************)
(* The out-of-band callback capture service of sec-toolkit:                *)
(*   backend/app/api/v1/callback.py  (token, record, rule and poll API,    *)
(*                                    handle_callback)                     *)
(*   backend/app/main.py             (the public /c/{token}[/{path}] routes)*)
(*   backend/app/database.py         (get_db: one session per request,     *)
(*                                    committed after the handler returns) *)
(*                                                                         *)
(* The persistent store is modelled as three committed tables (tokens,     *)
(* records, rules).  A capture request runs in its own session: what it    *)
(* flushes stays private to the session until get_db commits it.  One      *)
(* clock `now` stands for both datetime.utcnow() and the store's now();    *)
(* one tick is the unit of ttl and of the timestamp resolution.            *)
(***************************************************************************)
EXTENDS Integers, Sequences, FiniteSets, TLC

(* ------------------------------ bounds -------------------------------- *)
\* capture requests handled in one behaviour (each in its own session)
NReq == 2
\* the clock runs from 0 to MaxTime
MaxTime == 1
\* tokens ever created / rules ever created (ids are fresh, never reused)
MaxTokens == 2
MaxRules == 2
\* management calls and clock ticks of one behaviour
MaxOps == 4
\* committed interactions the polling specification starts with
Preload == 49
\* management calls and clock ticks of one behaviour with concurrent requests
ConcOps == 2
\* management calls, polls and clock ticks of one behaviour of the polling specification
PollOps == 2
\* management calls of one behaviour of the two-account specification
OwnOps == 3
\* renewals of one behaviour of the renewal specification
RenewOps == 1
\* management calls and ticks of one behaviour that starts from a used service
FrameOps == 2
\* rule creations of one behaviour of the specification of rule URLs
ReachOps == 2
\* the create_token calls of the specification of token creation
MaxCreates == 3

(* --------------------------- program constants ------------------------ *)
\* exfil_data = body[:2000]
ExfilBodyCap == 2000
\* query.order_by(timestamp.desc()).limit(50)
PollLimit == 50

(* ------------------------------ inputs -------------------------------- *)
Codes == {"c1", "c2"}
\* the methods requests are drawn from, two of the seven in methods=[...] of
\* the two public routes; the handler only stores the method
ReqMethods == {"GET", "POST"}
\* expires_hours of TokenCreate; {} is an absent (None) value
TTLs == {{}, {-1}, {0}, {1}}
\* rule names; a string is a sequence of characters
Names == {<<"a">>, <<"b">>}
\* sub-paths of the capture URL ("" is the bare token root)
Paths == { <<>>, <<"p", "a">>, <<"p", "/">>,
           <<"p", "/", "a">>, <<"p", "/", "b">>, <<"p", "/", "a", "/", "x">> }
Delays == {0, 1}
\* expires_hours of TokenRenew
RenewHours == {-1, 0, 1}

(* ------------------------------ strings ------------------------------- *)
\* str.startswith
StartsWith(s, pre) ==
    /\ Len(s) >= Len(pre)
    /\ SubSeq(s, 1, Len(pre)) = pre

\* s.split("/")[0]: the characters before the first "/"
RECURSIVE FirstSegment(_)
FirstSegment(s) ==
    IF s = <<>> \/ Head(s) = "/" THEN <<>>
    ELSE <<Head(s)>> \o FirstSegment(Tail(s))

\* path.startswith("p/")
IsPocPath(path) == StartsWith(path, <<"p", "/">>)

\* the name taken as everything after the prefix
RuleNameOf_Rest(path) == SubSeq(path, 3, Len(path))

\* path[2:].split("/")[0]
RuleNameOf(path) == FirstSegment(SubSeq(path, 3, Len(path)))

\* f"/{path}" if path else "/"
RecordedPath(path) == <<"/">> \o path

(* ------------------------------ state --------------------------------- *)
VARIABLES
    now,        \* the clock
    users,      \* the registered accounts (models/user.py); registration is not modelled
    tokens,     \* committed callback_tokens rows
    records,    \* committed callback_records rows
    rules,      \* committed poc_rules rows
    tokensMade, \* tokens created so far (the next token id is tokensMade + 1)
    rulesMade,  \* rules created so far
    budget,     \* management calls and clock ticks that may still happen
    slots,      \* capture requests that may arrive
    req,        \* the capture requests: position, session and response of each
    mgmt,       \* the last management call and its response
    client,     \* a polling client: the latest timestamp and the ids it has seen
    polled,     \* the last poll_records call and its response
    render,     \* a rule, the request that matched it and the response built from them
    intake,     \* an incoming request and what the handler derives from it for the record
    creating    \* the create_token calls in progress, each with its position

vars == <<now, users, tokens, records, rules, tokensMade, rulesMade, budget, slots, req, mgmt, client, polled, render, intake, creating>>

Reqs == 1 .. NReq

\* an optional value is a set with at most one element
None == {}
Some(x) == {x}
The(s) == CHOOSE x \in s : TRUE

(* ----------------------------- responses ------------------------------ *)
Plain(status, body) == [kind |-> "plain", status |-> status, body |-> body, rule |-> 0]

RespNotFound == Plain(404, <<"Not Found">>)
RespOK       == Plain(200, <<"OK">>)
RespExpired  == Plain(410, <<"Token Expired (but recorded)">>)
RespRuleNotFound(name) == Plain(404, <<"PoC Rule '">> \o name \o <<"' not found">>)
\* an exception that leaves the handler: the session is rolled back and the
\* framework answers 500
RespError    == [kind |-> "error", status |-> 500, body |-> <<"Internal Server Error">>, rule |-> 0]
\* Response(content=..., status_code=rule.status_code, headers=...)
RespRule(rule) == [kind |-> "rule", status |-> rule.status_code, body |-> <<>>, rule |-> rule.id]

(* ------------------------------ queries ------------------------------- *)
\* the lookup without its WHERE clause
TokenByCode_Unfiltered(code) == tokens

\* select(CallbackToken).where(CallbackToken.token == token)
TokenByCode(code) == {t \in tokens : t.code = code}

\* the ownership check without its user_id condition
OwnedToken_AnyUser(user, tid) == {t \in tokens : t.id = tid}

\* select(CallbackToken).where(id == token_id, user_id == current_user.id)
OwnedToken(user, tid) == {t \in tokens : t.id = tid /\ t.user = user}

\* db_token.expires_at and db_token.expires_at < datetime.utcnow()
IsExpired(tok, t) == \E e \in tok.expires : e < t

\* select(PocRule).where(token_id == db_token.id, name == rule_name, is_active == 1)
ActiveRules(tid, name) ==
    {x \in rules : x.token_id = tid /\ x.name = name /\ x.active}

(* --------------------------- capture request -------------------------- *)
IdleReq ==
    [pc |-> "idle", code |-> "c1", path |-> <<>>,
     tid |-> 0, expired |-> FALSE, rec |-> None, rule |-> None,
     hitw |-> None, matched |-> 0, resp |-> None, sent |-> FALSE]

\* CallbackRecord(...) as handle_callback builds it; timestamp is the store's
\* now() at the INSERT
NewRecord(r, tid, code, method, path, t) ==
    [id |-> r, token_id |-> tid, token |-> code, timestamp |-> t,
     method |-> method, path |-> RecordedPath(path),
     is_poc_hit |-> IsPocPath(path),
     poc_rule_name |-> IF IsPocPath(path) THEN Some(RuleNameOf(path)) ELSE None]

\* the default response at the end of handle_callback
DefaultResponse(expired) == IF expired THEN RespExpired ELSE RespOK

\* the store is one SQLite file (DATABASE_URL, journal_mode=WAL): one connection
\* writes at a time.  A session takes the write lock at its first INSERT, UPDATE
\* or DELETE and holds it until it commits or rolls back; here another request
\* has flushed its INSERT and not finished
WriteLocked(r) == \E q \in Reqs : q # r /\ req[q].rec # None

\* no capture request holds the write lock
StoreFree == \A q \in Reqs : req[q].rec = None

\* the request arrives; the handler resolves the token code (of the row it
\* finds it goes on to use db_token.id and the expiry computed here)
Resolve(r, code) ==
    /\ req[r].pc = "idle"
    /\ r <= slots
    /\ \A q \in Reqs : q < r => req[q].pc # "idle"
    /\ LET found == TokenByCode(code)
           base  == [req[r] EXCEPT !.code = code]
       IN  IF found = {}
           THEN req' = [req EXCEPT ![r] =
                          [base EXCEPT !.pc = "returned", !.resp = Some(RespNotFound)]]
           ELSE req' = [req EXCEPT ![r] =
                          [base EXCEPT !.pc = "resolved", !.tid = The(found).id,
                                       !.expired = IsExpired(The(found), now)]]
    /\ UNCHANGED <<now, users, tokens, records, rules, tokensMade, rulesMade, budget, slots, mgmt, client, polled, render, intake, creating>>

\* a handler that enters the rule branch or answers without the INSERT
Record_NoInsert(r, path, method) ==
    /\ req[r].pc = "resolved"
    /\ LET q == [req[r] EXCEPT !.path = path]
       IN  IF IsPocPath(path)
           THEN req' = [req EXCEPT ![r] = [q EXCEPT !.pc = "lookup"]]
           ELSE req' = [req EXCEPT ![r] =
                          [q EXCEPT !.pc = "returned", !.resp = Some(DefaultResponse(q.expired))]]
    /\ UNCHANGED <<now, users, tokens, records, rules, tokensMade, rulesMade, budget, slots, mgmt, client, polled, render, intake, creating>>

\* db.add(record); await db.flush(): the row is inserted in the request's own
\* transaction, which takes the write lock (the flush waits while another
\* session holds it); then either the rule branch is entered or the default response
\* is returned.  The sub-path and the method of the request are first read
\* here, so they are drawn here
Record(r, path, method) ==
    /\ req[r].pc = "resolved"
    /\ ~WriteLocked(r)
    /\ LET q   == [req[r] EXCEPT !.path = path]
           rec == NewRecord(r, q.tid, q.code, method, path, now)
       IN  IF IsPocPath(path)
           THEN req' = [req EXCEPT ![r] = [q EXCEPT !.pc = "lookup", !.rec = Some(rec)]]
           ELSE req' = [req EXCEPT ![r] =
                          [q EXCEPT !.pc = "returned", !.rec = Some(rec),
                                    !.resp = Some(DefaultResponse(q.expired))]]
    /\ UNCHANGED <<now, users, tokens, records, rules, tokensMade, rulesMade, budget, slots, mgmt, client, polled, render, intake, creating>>

\* an exception leaves the handler: get_db rolls the session back and re-raises
Raise(q) ==
    [q EXCEPT !.pc = "done", !.rec = None, !.hitw = None, !.rule = None,
              !.resp = Some(RespError)]

\* the flush of the INSERT has waited for the write lock longer than the
\* connection's busy timeout, which a holder suspended in a rule's delay makes
\* possible (delay_ms has no upper limit): it raises "database is locked"
Locked(r, path) ==
    /\ req[r].pc = "resolved"
    /\ \E q \in Reqs : q # r /\ req[q].rec # None /\ req[q].pc = "sleep"
    /\ req' = [req EXCEPT ![r] = Raise([req[r] EXCEPT !.path = path])]
    /\ UNCHANGED <<now, users, tokens, records, rules, tokensMade, rulesMade, budget, slots, mgmt, client, polled, render, intake, creating>>

\* rule_result.scalar_one_or_none(): no row is None, one row is the rule, more
\* than one row raises MultipleResultsFound
Lookup(r) ==
    /\ req[r].pc = "lookup"
    /\ LET q     == req[r]
           name  == RuleNameOf(q.path)
           found == ActiveRules(q.tid, name)
       IN  req' = [req EXCEPT ![r] =
                     IF found = {}
                     THEN [q EXCEPT !.pc = "returned", !.resp = Some(RespRuleNotFound(name))]
                     ELSE IF Cardinality(found) = 1
                     THEN [q EXCEPT !.pc = "hit", !.rule = found]
                     ELSE Raise(q)]
    /\ UNCHANGED <<now, users, tokens, records, rules, tokensMade, rulesMade, budget, slots, mgmt, client, polled, render, intake, creating>>

\* the value the handler writes: rule.hit_count += 1 on the loaded object
Incremented(rule) == rule.hit_count + 1

\* the response of a matched rule, built after the optional delay
Render(q) ==
    [q EXCEPT !.pc = "returned", !.resp = Some(RespRule(The(q.rule))), !.rule = None]

\* rule.hit_count += 1; await db.flush(): UPDATE poc_rules SET hit_count = <value>
\* WHERE id = <id>, in the transaction that already holds the write lock; then
\* the delay, if the rule has one
Hit(r) ==
    /\ req[r].pc = "hit"
    /\ LET q    == req[r]
           rule == The(q.rule)
           w    == [q EXCEPT !.matched = rule.id,
                             !.hitw = Some([id |-> rule.id, val |-> Incremented(rule)])]
       IN  req' = [req EXCEPT ![r] =
                     IF rule.delay_ms > 0 THEN [w EXCEPT !.pc = "sleep"] ELSE Render(w)]
    /\ UNCHANGED <<now, users, tokens, records, rules, tokensMade, rulesMade, budget, slots, mgmt, client, polled, render, intake, creating>>

\* await asyncio.sleep(rule.delay_ms / 1000) is over
Wake(r) ==
    /\ req[r].pc = "sleep"
    /\ req' = [req EXCEPT ![r] = Render(req[r])]
    /\ UNCHANGED <<now, users, tokens, records, rules, tokensMade, rulesMade, budget, slots, mgmt, client, polled, render, intake, creating>>

\* the handler raises after the hit is flushed, in building the response
\* (Response(...) cannot encode a header value of the rule, callback.py 981-985
\* and 996-1000): get_db rolls the session back, INSERT and UPDATE with it
Abort(r) ==
    /\ req[r].pc = "sleep"
    /\ req' = [req EXCEPT ![r] = Raise(req[r])]
    /\ UNCHANGED <<now, users, tokens, records, rules, tokensMade, rulesMade, budget, slots, mgmt, client, polled, render, intake, creating>>

\* the rules table after a session's hit_count UPDATE commits
ApplyHit(rs, hitw) ==
    {IF \E w \in hitw : w.id = x.id
     THEN [x EXCEPT !.hit_count = The(hitw).val]
     ELSE x : x \in rs}

\* a commit that keeps the hit and drops the Interaction
Commit_HitOnly(r) ==
    /\ req[r].pc = "returned"
    /\ rules' = ApplyHit(rules, req[r].hitw)
    /\ req' = [req EXCEPT ![r] = [@ EXCEPT !.pc = "done", !.rec = None, !.hitw = None]]
    /\ UNCHANGED <<now, users, tokens, records, tokensMade, rulesMade, budget, slots, mgmt, client, polled, render, intake, creating>>

\* get_db after the handler has returned: await session.commit()
Commit(r) ==
    /\ req[r].pc = "returned"
    /\ records' = records \cup req[r].rec
    /\ rules' = ApplyHit(rules, req[r].hitw)
    /\ req' = [req EXCEPT ![r] = [@ EXCEPT !.pc = "done", !.rec = None, !.hitw = None]]
    /\ UNCHANGED <<now, users, tokens, tokensMade, rulesMade, budget, slots, mgmt, client, polled, render, intake, creating>>

\* the response reaches the caller.  get_db's code after the yield runs before
\* or after the response is sent, depending on the framework release, so both
\* orders are possible
Send(r) ==
    /\ req[r].pc \in {"returned", "done"}
    /\ ~req[r].sent
    /\ req' = [req EXCEPT ![r] = [@ EXCEPT !.sent = TRUE]]
    /\ UNCHANGED <<now, users, tokens, records, rules, tokensMade, rulesMade, budget, slots, mgmt, client, polled, render, intake, creating>>

(* ------------------------------- clock -------------------------------- *)
\* time passes; a tick is one of the environment's events, like a management call
Tick ==
    /\ now < MaxTime
    /\ budget > 0
    /\ budget' = budget - 1
    /\ now' = now + 1
    /\ UNCHANGED <<users, tokens, records, rules, tokensMade, rulesMade, slots, req, mgmt, client, polled, render, intake, creating>>

(* --------------------------- management API --------------------------- *)
\* A management call is one step, its commit included; the calls that write
\* wait for the write lock.
TokenIds == 1 .. MaxTokens
RuleIds == 1 .. MaxRules

\* the response of a management call: its status, for an HTTPException its
\* detail, and the rows it returns
Call(op, user, tid, status, detail) ==
    [status |-> status, detail |-> IF status = 200 THEN "" ELSE detail, data |-> {}]

\* the response of a call that returns rows
Rows(data) == [status |-> 200, detail |-> "", data |-> data]

\* raise HTTPException(status_code=404, detail="Token not found")
TokenNotFound(op, user, tid) == Call(op, user, tid, 404, "Token not found")

\* a management call that is refused changes nothing but its own response
Refused(call) ==
    /\ mgmt' = call
    /\ UNCHANGED <<budget, now, users, tokens, records, rules, tokensMade, rulesMade, slots, req, client, polled, render, intake, creating>>

\* expires_at of create_token: `if req.expires_hours:` is true of every
\* non-zero number of hours
CreateExpiry(ttl, t) == IF \E h \in ttl : h # 0 THEN Some(t + The(ttl)) ELSE None

\* the uniqueness loop of create_token draws codes until one is unused
FreshCodes == {c \in Codes : TokenByCode(c) = {}}

create_token(user, ttl, code) ==
    /\ budget > 0
    /\ tokensMade < MaxTokens
    /\ code \in FreshCodes
    /\ StoreFree
    /\ tokens' = tokens \cup {[id |-> tokensMade + 1, code |-> code, user |-> user,
                               expires |-> CreateExpiry(ttl, now), active |-> TRUE]}
    /\ tokensMade' = tokensMade + 1
    /\ budget' = budget - 1
    /\ mgmt' = Call("create_token", user, tokensMade + 1, 200, "")
    /\ UNCHANGED <<now, users, records, rules, rulesMade, slots, req, client, polled, render, intake, creating>>

\* delete(CallbackRecord).where(token_id == token_id); db.delete(token)
delete_token(user, tid) ==
    /\ budget > 0
    /\ IF OwnedToken(user, tid) = {}
       THEN Refused(TokenNotFound("delete_token", user, tid))
       ELSE /\ StoreFree
            /\ records' = {x \in records : x.token_id # tid}
            /\ tokens' = tokens \ OwnedToken(user, tid)
            /\ budget' = budget - 1
            /\ mgmt' = Call("delete_token", user, tid, 200, "Token deleted")
            /\ UNCHANGED <<now, users, rules, tokensMade, rulesMade, slots, req, client, polled, render, intake, creating>>

\* expires_at of renew_token
RenewExpiry(hours, t) == IF hours > 0 THEN Some(t + hours) ELSE None

renew_token(user, tid, hours) ==
    /\ budget > 0
    /\ IF OwnedToken(user, tid) = {}
       THEN Refused(TokenNotFound("renew_token", user, tid))
       ELSE /\ StoreFree
            /\ tokens' = {IF t.id = tid
                          THEN [t EXCEPT !.expires = RenewExpiry(hours, now), !.active = TRUE]
                          ELSE t : t \in tokens}
            /\ budget' = budget - 1
            /\ mgmt' = Call("renew_token", user, tid, 200, "")
            /\ UNCHANGED <<now, users, records, rules, tokensMade, rulesMade, slots, req, client, polled, render, intake, creating>>

\* a clearing that deletes the records of every token
clear_records_All(user, tid) ==
    /\ budget > 0
    /\ IF OwnedToken(user, tid) = {}
       THEN Refused(TokenNotFound("clear_records", user, tid))
       ELSE /\ StoreFree
            /\ records' = {}
            /\ budget' = budget - 1
            /\ mgmt' = Call("clear_records", user, tid, 200, "")
            /\ UNCHANGED <<now, users, tokens, rules, tokensMade, rulesMade, slots, req, client, polled, render, intake, creating>>

\* delete(CallbackRecord).where(CallbackRecord.token_id == token_id)
clear_records(user, tid) ==
    /\ budget > 0
    /\ IF OwnedToken(user, tid) = {}
       THEN Refused(TokenNotFound("clear_records", user, tid))
       ELSE /\ StoreFree
            /\ records' = {x \in records : x.token_id # tid}
            /\ budget' = budget - 1
            /\ mgmt' = Call("clear_records", user, tid, 200, "")
            /\ UNCHANGED <<now, users, tokens, rules, tokensMade, rulesMade, slots, req, client, polled, render, intake, creating>>

\* PocRule(...) of create_poc_rule; is_active defaults to 1, hit_count to 0
NewRule(rid, tid, name, delay) ==
    [id |-> rid, token_id |-> tid, name |-> name, active |-> TRUE,
     hit_count |-> 0, delay_ms |-> delay, status_code |-> 200]

create_poc_rule(user, tid, name, delay) ==
    /\ budget > 0
    /\ IF OwnedToken(user, tid) = {}
       THEN Refused(TokenNotFound("create_poc_rule", user, tid))
       ELSE IF \E x \in rules : x.token_id = tid /\ x.name = name
       THEN Refused(Call("create_poc_rule", user, tid, 400, "Rule name already exists"))
       ELSE /\ rulesMade < MaxRules
            /\ StoreFree
            /\ rules' = rules \cup {NewRule(rulesMade + 1, tid, name, delay)}
            /\ rulesMade' = rulesMade + 1
            /\ budget' = budget - 1
            /\ mgmt' = Call("create_poc_rule", user, tid, 200, "")
            /\ UNCHANGED <<now, users, tokens, records, tokensMade, slots, req, client, polled, render, intake, creating>>

\* the fields a PocRuleUpdate sets (model_dump(exclude_unset=True))
Patches ==
    {[name |-> Some(n), active |-> None, delay_ms |-> None] : n \in Names}
    \cup {[name |-> None, active |-> Some(b), delay_ms |-> None] : b \in BOOLEAN}

\* for key, value in update_data.items(): setattr(rule, key, value)
Patched(x, patch) ==
    [x EXCEPT !.name = IF patch.name = None THEN @ ELSE The(patch.name),
              !.active = IF patch.active = None THEN @ ELSE The(patch.active),
              !.delay_ms = IF patch.delay_ms = None THEN @ ELSE The(patch.delay_ms)]

update_poc_rule(user, tid, rid, patch) ==
    /\ budget > 0
    /\ IF OwnedToken(user, tid) = {}
       THEN Refused(TokenNotFound("update_poc_rule", user, tid))
       ELSE IF \A x \in rules : ~(x.id = rid /\ x.token_id = tid)
       THEN Refused(Call("update_poc_rule", user, tid, 404, "Rule not found"))
       ELSE /\ StoreFree
            /\ rules' = {IF x.id = rid THEN Patched(x, patch) ELSE x : x \in rules}
            /\ budget' = budget - 1
            /\ mgmt' = Call("update_poc_rule", user, tid, 200, "")
            /\ UNCHANGED <<now, users, tokens, records, tokensMade, rulesMade, slots, req, client, polled, render, intake, creating>>

\* delete(PocRule).where(PocRule.id == rule_id, PocRule.token_id == token_id)
delete_poc_rule(user, tid, rid) ==
    /\ budget > 0
    /\ IF OwnedToken(user, tid) = {}
       THEN Refused(TokenNotFound("delete_poc_rule", user, tid))
       ELSE IF \A x \in rules : ~(x.id = rid /\ x.token_id = tid)
       THEN Refused(Call("delete_poc_rule", user, tid, 404, "Rule not found"))
       ELSE /\ StoreFree
            /\ rules' = {x \in rules : x.id # rid}
            /\ budget' = budget - 1
            /\ mgmt' = Call("delete_poc_rule", user, tid, 200, "Rule deleted")
            /\ UNCHANGED <<now, users, tokens, records, tokensMade, rulesMade, slots, req, client, polled, render, intake, creating>>

(* ------------------------------- reads -------------------------------- *)
\* a read answers from the committed rows and changes nothing
Answered(call) ==
    /\ mgmt' = call
    /\ UNCHANGED <<budget, now, users, tokens, records, rules, tokensMade, rulesMade, slots, req, client, polled, render, intake, creating>>

\* GET /tokens: the caller's tokens, each with the number of its records
list_tokens(user) ==
    Answered(Rows({[id |-> t.id, code |-> t.code, user |-> t.user,
                    record_count |-> Cardinality({x \in records : x.token_id = t.id})]
                      : t \in {u \in tokens : u.user = user}}))

\* GET /tokens/{token_id}/stats
get_token_stats(user, tid) ==
    IF OwnedToken(user, tid) = {}
    THEN Answered(TokenNotFound("get_token_stats", user, tid))
    ELSE Answered(Rows({[token_id |-> tid,
                         total |-> Cardinality({x \in records : x.token_id = tid})]}))

\* GET /tokens/{token_id}/records (its limit, 100 by default, is above the
\* number of rows a token has here)
get_records(user, tid) ==
    IF OwnedToken(user, tid) = {}
    THEN Answered(TokenNotFound("get_records", user, tid))
    ELSE Answered(Rows({x \in records : x.token_id = tid}))

\* GET /tokens/{token_id}/rules
list_poc_rules(user, tid) ==
    IF OwnedToken(user, tid) = {}
    THEN Answered(TokenNotFound("list_poc_rules", user, tid))
    ELSE Answered(Rows({x \in rules : x.token_id = tid}))

(* -------------------------------- poll -------------------------------- *)
\* the `since` query parameter: absent, an ISO timestamp, or text that
\* datetime.fromisoformat rejects
SinceInputs == {<<>>, <<"garbage">>} \cup {<<"iso", t>> : t \in -1 .. MaxTime}

\* if since: try: since_time = datetime.fromisoformat(...) except: pass
\* (the filter is applied only when the text parses)
ParseSince(since) ==
    IF since # <<>> /\ Head(since) = "iso" THEN Some(since[2]) ELSE None

\* datetime as the response serialises it
IsoFormat(t) == <<"iso", t>>

\* the filter that keeps the rows at `since` itself
Matching_Inclusive(tid, since) ==
    {x \in records : x.token_id = tid /\ \A s \in ParseSince(since) : x.timestamp >= s}

\* .where(token_id == token_id) [.where(timestamp > since_time)]
Matching(tid, since) ==
    {x \in records : x.token_id = tid /\ \A s \in ParseSince(since) : x.timestamp > s}

\* the rows a query with ORDER BY timestamp DESC LIMIT n may return: every row
\* newer than the cut, and any choice among the rows that tie at the cut
Pages(rows, n) ==
    IF Cardinality(rows) <= n THEN {rows}
    ELSE LET newer(x) == {y \in rows : y.timestamp > x.timestamp}
             cut   == CHOOSE x \in rows :
                         /\ Cardinality(newer(x)) < n
                         /\ Cardinality({y \in rows : y.timestamp >= x.timestamp}) >= n
             above == newer(cut)
             ties  == {y \in rows : y.timestamp = cut.timestamp}
         IN  {above \cup t : t \in {u \in SUBSET ties : Cardinality(u) = n - Cardinality(above)}}

\* the rows of a page in the order of the query, newest first
RECURSIVE NewestFirst(_)
NewestFirst(rows) ==
    IF rows = {} THEN <<>>
    ELSE LET x == CHOOSE y \in rows : \A z \in rows : z.timestamp <= y.timestamp
         IN  <<x>> \o NewestFirst(rows \ {x})

\* a page one row short
PollPages_Short(tid, since) == Pages(Matching(tid, since), PollLimit - 1)

\* query.order_by(CallbackRecord.timestamp.desc()).limit(50)
PollPages(tid, since) == Pages(Matching(tid, since), PollLimit)

NoPoll == [user |-> "u1", tid |-> 0, since |-> <<>>, status |-> 0, result |-> <<>>]

PollResponse(user, tid, since, page) ==
    [user |-> user, tid |-> tid, since |-> since, status |-> 200,
     result |-> NewestFirst(page)]

PollRefused(user, tid, since) ==
    [user |-> user, tid |-> tid, since |-> since, status |-> 404, result |-> <<>>]

\* GET /tokens/{token_id}/poll?since=...
poll_records(user, tid, since) ==
    /\ budget > 0
    /\ budget' = budget - 1
    /\ IF OwnedToken(user, tid) = {}
       THEN polled' = PollRefused(user, tid, since)
       ELSE \E page \in PollPages(tid, since) :
               polled' = PollResponse(user, tid, since, page)
    /\ UNCHANGED <<now, users, tokens, records, rules, tokensMade, rulesMade, slots, req, mgmt, client, render, intake, creating>>

\* the largest element of a non-empty set of timestamps
Latest(ts) == CHOOSE t \in ts : \A u \in ts : u <= t

\* the token the polling client follows
ClientToken == 1

\* the client's next `since`: the latest timestamp it has been returned so far
NextSince(since, page) ==
    IF page = {} THEN since
    ELSE Some(Latest({x.timestamp : x \in page} \cup since))

\* the owner's client polls with the latest timestamp it has been returned
client_poll ==
    /\ budget > 0
    /\ budget' = budget - 1
    /\ \E t \in tokens : t.id = ClientToken
    /\ LET owner == (CHOOSE t \in tokens : t.id = ClientToken).user
           since == IF client.since = None THEN <<>> ELSE IsoFormat(The(client.since))
       IN  \E page \in PollPages(ClientToken, since) :
              /\ polled' = PollResponse(owner, ClientToken, since, page)
              /\ client' = [since |-> NextSince(client.since, page),
                            seen |-> client.seen \cup {x.id : x \in page}]
    /\ UNCHANGED <<now, users, tokens, records, rules, tokensMade, rulesMade, slots, req, mgmt, render, intake, creating>>

(* --------------------------- rule rendering --------------------------- *)
\* Text is a sequence of pieces; a piece is a run of literal characters or one
\* whole placeholder.  The keys of the `replacements` dict, in its order:
FixedSymbols ==
    <<"{{client_ip}}", "{{timestamp}}", "{{method}}", "{{path}}", "{{host}}",
      "{{user_agent}}", "{{callback_url}}", "{{attacker_ip}}", "{{attacker_port}}">>

\* the names X of the placeholders {{param.X}} that occur in the inputs
ParamNames == {"a", "b"}
ParamSymbol == [x \in ParamNames |-> IF x = "a" THEN "{{param.a}}" ELSE "{{param.b}}"]

\* what r'\{\{param\.(\w+)\}\}' matches
IsParam(piece) == \E x \in ParamNames : ParamSymbol[x] = piece
\* match.group(1)
ParamName(piece) == CHOOSE x \in ParamNames : ParamSymbol[x] = piece

\* content.replace(var, value): every occurrence of var in content, left to
\* right; what it inserts is not searched again by this call
RECURSIVE Replace(_, _, _)
Replace(content, var, value) ==
    IF content = <<>> THEN <<>>
    ELSE (IF Head(content) = var THEN value ELSE <<Head(content)>>)
         \o Replace(Tail(content), var, value)

\* the values of the `replacements` dict, in the order of FixedSymbols
Replacements(request, client_ip, token) ==
    << IF client_ip = <<>> THEN <<"unknown">> ELSE client_ip,
       <<"2026-01-01T00:00:00">>,
       <<request.method>>,
       request.path,
       IF request.host = None THEN <<"unknown">> ELSE The(request.host),
       IF request.user_agent = None THEN <<"unknown">> ELSE The(request.user_agent),
       <<"/c/", token>>,
       <<"ATTACKER_IP">>,
       <<"4444">> >>

\* for var, value in replacements.items(): content = content.replace(var, value)
RECURSIVE ReplaceFixed(_, _, _)
ReplaceFixed(content, values, i) ==
    IF i > Len(FixedSymbols) THEN content
    ELSE ReplaceFixed(Replace(content, FixedSymbols[i], values[i]), values, i + 1)

\* re.finditer(param_pattern, content): the matches in the text it was given
Matches(content) == SelectSeq(content, IsParam)

\* query_params.get(param_name, '')
ParamValue(query, name) == IF query[name] = None THEN <<>> ELSE The(query[name])

\* for match in ...: content = content.replace(match.group(0), param_value)
RECURSIVE ReplaceParams(_, _, _)
ReplaceParams(content, matches, query) ==
    IF matches = <<>> THEN content
    ELSE ReplaceParams(Replace(content, Head(matches),
                               ParamValue(query, ParamName(Head(matches)))),
                       Tail(matches), query)

replace_variables(content, request, client_ip, token) ==
    IF content = <<>> THEN content
    ELSE LET fixed == ReplaceFixed(content, Replacements(request, client_ip, token), 1)
         IN  ReplaceParams(fixed, Matches(fixed), request.query)

\* a dict of headers is a function from its keys to their values
NoHeaders == [h \in {} |-> <<>>]

\* response_headers = dict(rule.response_headers or {});
\* response_headers["Content-Type"] = rule.content_type
MergedHeaders(rule) ==
    [h \in DOMAIN rule.response_headers \cup {"Content-Type"} |->
        IF h = "Content-Type" THEN rule.content_type ELSE rule.response_headers[h]]

\* a rendering in which a body, when the rule has one, goes before the redirect
RuleResponse_BodyFirst(rule, request, client_ip, token) ==
    IF rule.redirect_url # <<>> /\ rule.response_body = <<>>
    THEN [status  |-> IF rule.status_code = 0 THEN 302 ELSE rule.status_code,
          body    |-> <<>>,
          headers |-> "Location" :> rule.redirect_url]
    ELSE [status  |-> rule.status_code,
          body    |-> rule.response_body,
          headers |-> MergedHeaders(rule)]

\* the response of a matched rule: the redirect if the rule has one, else the
\* body with the merged headers
RuleResponse(rule, request, client_ip, token) ==
    IF rule.redirect_url # <<>>
    THEN [status  |-> IF rule.status_code = 0 THEN 302 ELSE rule.status_code,
          body    |-> <<>>,
          headers |-> "Location" :>
                        (IF rule.enable_variables
                         THEN replace_variables(rule.redirect_url, request, client_ip, token)
                         ELSE rule.redirect_url)]
    ELSE [status  |-> rule.status_code,
          body    |-> IF rule.enable_variables
                      THEN replace_variables(rule.response_body, request, client_ip, token)
                      ELSE rule.response_body,
          headers |-> MergedHeaders(rule)]

\* response_body of a rule (Text, nullable)
Templates ==
    { <<>>,
      <<"hi ", "{{method}}">>,
      <<"{{param.a}}", "-", "{{param.b}}">>,
      <<"{{client_ip}}", "{{timestamp}}", "{{method}}", "{{path}}", "{{host}}",
        "{{user_agent}}", "{{callback_url}}">>,
      <<"ua=", "{{user_agent}}", " a=", "{{param.a}}", " b=", "{{param.b}}">>,
      <<"{{attacker_ip}}", ":", "{{attacker_port}}", " ", "{{param.a}}">> }

\* redirect_url of a rule: none, or a URL with a placeholder
Redirects == {<<>>, <<"http://x/?from=", "{{client_ip}}">>}

\* response_headers of a rule (JSON, Dict[str, str])
RuleHeaders ==
    { NoHeaders,
      "X-Frame-Options" :> <<"DENY">>,
      "Content-Type" :> <<"application/json">>,
      ("Content-Type" :> <<"application/json">>) @@ ("X-Frame-Options" :> <<"DENY">>) }

\* status_code of a rule: 200 is the default, 0 stands for one that is not set
StatusCodes == {0, 200}

\* content_type of a rule; 'text/html' is the default
ContentTypes == {<<"text/html">>, <<"text/plain">>}

\* what get_client_ip returns: the first proxy header, else the peer address
ClientIps == {<<"10.0.0.1">>, <<"{{method}}">>}
\* the Host and User-Agent headers, when the caller sends them
Hosts == {None, Some(<<"h.example">>), Some(<<"{{user_agent}}">>)}
UserAgents == {None, Some(<<"curl">>), Some(<<"{{client_ip}}">>), Some(<<"{{callback_url}}">>)}
\* request.url.path of a request that matches the rule "echo" of token "c1"
RulePaths == {<<"/c/c1/p/echo">>, <<"/c/c1/p/echo/", "{{host}}">>}
\* the query string: each parameter absent, or present with a value
QueryValues == {None, Some(<<"1">>), Some(<<"{{param.b}}">>), Some(<<"{{method}}">>)}
Queries == [ParamNames -> QueryValues]

\* no request is being taken in
NoIntake == [pc |-> "none"]

\* no rule is being rendered
NoRender == [pc |-> "none"]

\* the rule has been hit and delayed: build its response
Respond ==
    /\ render.pc = "matched"
    /\ render' = [render EXCEPT !.pc = "responded",
                     !.resp = Some(RuleResponse(render.rule, render.request,
                                                render.client_ip, render.token))]
    /\ UNCHANGED <<now, users, tokens, records, rules, tokensMade, rulesMade, budget, slots, req, mgmt, client, polled, intake, creating>>

(* --------------------------- request intake --------------------------- *)
\* A query value, a header value and a body are texts: sequences of pieces,
\* the empty sequence being the empty string.

\* for key in ['data', 'd', 'c', 'cookie', 'file', 'cmd', 'result']
ExfilKeys == <<"data", "d", "c", "cookie", "file", "cmd", "result">>

\* the parameters of the query string the handler reads; query_params is a
\* function from them to the value of each, if it is present
QueryNames == {"_exfil", "_type", "_data"} \cup {ExfilKeys[i] : i \in DOMAIN ExfilKeys}

\* `not x` of Python for an optional text: None or the empty string
Falsy(opt) == opt = None \/ opt = Some(<<>>)

\* text[:n]
Prefix(text, n) == SubSeq(text, 1, IF Len(text) < n THEN Len(text) ELSE n)

\* query_params.get('_exfil') == '1'
IsDataExfil(query) == query["_exfil"] = Some(<<"1">>)

\* query_params.get('_type') if is_data_exfil else None
ExfilType(query) == IF IsDataExfil(query) THEN query["_type"] ELSE None

\* for key in [...]: if key in query_params: exfil_data = query_params[key]; break
RECURSIVE FirstPresent(_, _)
FirstPresent(query, i) ==
    IF i > Len(ExfilKeys) THEN None
    ELSE IF query[ExfilKeys[i]] # None THEN query[ExfilKeys[i]]
    ELSE FirstPresent(query, i + 1)

\* a resolution that looks at _data alone
ExfilData_DataOnly(query, body) == IF IsDataExfil(query) THEN query["_data"] ELSE None

\* exfil_data as the handler resolves it
ExfilData(query, body) ==
    LET explicit == IF IsDataExfil(query) THEN query["_data"] ELSE None
        named    == IF IsDataExfil(query) /\ Falsy(explicit) /\ FirstPresent(query, 1) # None
                    THEN FirstPresent(query, 1) ELSE explicit
    IN  IF IsDataExfil(query) /\ Falsy(explicit) /\ Falsy(named) /\ body # <<>>
        THEN Some(Prefix(body, ExfilBodyCap))
        ELSE named

\* the query strings and bodies of the requests taken in
ExfilFlags == {None, Some(<<"1">>), Some(<<"0">>)}
ExfilQueries ==
    { [n \in QueryNames |->
          IF n = "_exfil" THEN flag ELSE IF n = "_type" THEN type
          ELSE IF n = "_data" THEN explicit ELSE IF n = "data" THEN data
          ELSE IF n = "d" THEN d ELSE IF n = "cookie" THEN cookie
          ELSE IF n = "result" THEN result ELSE None] :
        flag \in ExfilFlags, type \in {None, Some(<<"cookie">>)},
        explicit \in {None, Some(<<>>), Some(<<"v">>)},
        data \in {None, Some(<<>>), Some(<<"w">>)},
        d \in {None, Some(<<"v">>)}, cookie \in {None, Some(<<"w">>)},
        result \in {None, Some(<<"v">>)} }
Bodies == {<<>>, <<"b">>, [i \in 1 .. ExfilBodyCap + 1 |-> "b"]}

\* the exfiltration fields of the record built from the request
Classify ==
    /\ intake.pc = "received"
    /\ intake' = [intake EXCEPT !.pc = "recorded",
                     !.is_data_exfil = IsDataExfil(intake.query),
                     !.exfil_type = ExfilType(intake.query),
                     !.exfil_data = ExfilData(intake.query, intake.body)]
    /\ UNCHANGED <<now, users, tokens, records, rules, tokensMade, rulesMade, budget, slots, req, mgmt, client, polled, render, creating>>

\* proxy_headers, in the order get_client_ip tries them, and X-Forwarded-For
\* which it tries next
ProxyHeaders == <<"CF-Connecting-IP", "X-Real-IP", "True-Client-IP", "X-Client-IP">>
IpHeaders == ProxyHeaders \o <<"X-Forwarded-For">>

\* value.split(',')[0]: the pieces before the first comma
RECURSIVE FirstElement(_)
FirstElement(value) ==
    IF value = <<>> \/ Head(value) = "," THEN <<>>
    ELSE <<Head(value)>> \o FirstElement(Tail(value))

\* text.lstrip() and text.strip(), a blank being the piece " "
RECURSIVE LStrip(_)
LStrip(text) == IF text # <<>> /\ Head(text) = " " THEN LStrip(Tail(text)) ELSE text
RECURSIVE Strip(_)
Strip(text) ==
    IF text # <<>> /\ text[Len(text)] = " " THEN Strip(SubSeq(text, 1, Len(text) - 1))
    ELSE LStrip(text)

\* value = request.headers.get(header); if value: ip = value.split(',')[0].strip()
HeaderIp(headers, name) ==
    IF Falsy(headers[name]) THEN <<>> ELSE Strip(FirstElement(The(headers[name])))

\* the first header of the list from position i on that gives an address
RECURSIVE FromHeaders(_, _)
FromHeaders(headers, i) ==
    IF i > Len(IpHeaders) THEN <<>>
    ELSE IF HeaderIp(headers, IpHeaders[i]) # <<>> THEN HeaderIp(headers, IpHeaders[i])
    ELSE FromHeaders(headers, i + 1)

\* an address taken from the transport peer before any header
get_client_ip_PeerFirst(headers, peer) ==
    IF ~Falsy(peer) THEN The(peer)
    ELSE IF FromHeaders(headers, 1) # <<>> THEN FromHeaders(headers, 1)
    ELSE <<"unknown">>

\* get_client_ip(request): the headers, then request.client.host, then 'unknown'
get_client_ip(headers, peer) ==
    IF FromHeaders(headers, 1) # <<>> THEN FromHeaders(headers, 1)
    ELSE IF ~Falsy(peer) THEN The(peer)
    ELSE <<"unknown">>

\* the address each header names when it names one
HeaderAddress ==
    [h \in {IpHeaders[i] : i \in DOMAIN IpHeaders} |->
        IF h = "CF-Connecting-IP" THEN "1.1.1.1" ELSE IF h = "X-Real-IP" THEN "2.2.2.2"
        ELSE IF h = "True-Client-IP" THEN "3.3.3.3" ELSE IF h = "X-Client-IP" THEN "4.4.4.4"
        ELSE "5.5.5.5"]

\* a header is absent, empty, a list whose first element is blank, a list that
\* starts with the header's address between blanks, or that address alone
HeaderValues(h) ==
    {None, Some(<<>>), Some(<<" ", ",", "9.9.9.9">>),
     Some(<<" ", HeaderAddress[h], " ", ",", "9.9.9.9">>), Some(<<HeaderAddress[h]>>)}
IpHeaderSets ==
    {hs \in [{IpHeaders[i] : i \in DOMAIN IpHeaders} ->
                UNION {HeaderValues(IpHeaders[i]) : i \in DOMAIN IpHeaders}] :
        \A h \in DOMAIN hs : hs[h] \in HeaderValues(h)}
\* request.client.host
Peers == {None, Some(<<>>), Some(<<"10.0.0.1">>)}

\* client_ip = get_client_ip(request), as the record will hold it
Identify ==
    /\ intake.pc = "connected"
    /\ intake' = [intake EXCEPT !.pc = "identified",
                     !.client_ip = get_client_ip(intake.headers, intake.peer)]
    /\ UNCHANGED <<now, users, tokens, records, rules, tokensMade, rulesMade, budget, slots, req, mgmt, client, polled, render, creating>>

(* --------------------------- token creation --------------------------- *)
\* create_token step by step, for calls that run side by side
Creates == 1 .. MaxCreates
IdleCreate == [pc |-> "idle", user |-> "u1", ttl |-> None, code |-> "c1", status |-> 0]
NoCreates == [k \in Creates |-> IdleCreate]

\* the UNIQUE index on callback_tokens.token left out
CodeTaken_Unchecked(code) == FALSE

\* unique=True on CallbackToken.token: the INSERT of a code that a committed row
\* holds raises IntegrityError
CodeTaken(code) == \E t \in tokens : t.code = code

\* another call has flushed its INSERT and holds the write lock of the store
CreateLocked(k) == \E j \in Creates : j # k /\ creating[j].pc = "flushed"

\* the call arrives: token = secrets.token_urlsafe(9)[:12], then the first SELECT
Draw(k, user, ttl, code) ==
    /\ creating[k].pc = "idle"
    /\ \A j \in Creates : j < k => creating[j].pc # "idle"
    /\ creating' = [creating EXCEPT ![k] =
                      [pc |-> "drawn", user |-> user, ttl |-> ttl, code |-> code, status |-> 0]]
    /\ UNCHANGED <<now, users, tokens, records, rules, tokensMade, rulesMade, budget, slots, req, mgmt, client, polled, render, intake>>

\* while result.scalar_one_or_none(): draw again and SELECT again
Redraw(k, code) ==
    /\ creating[k].pc = "drawn"
    /\ TokenByCode(creating[k].code) # {}
    /\ creating' = [creating EXCEPT ![k].code = code]
    /\ UNCHANGED <<now, users, tokens, records, rules, tokensMade, rulesMade, budget, slots, req, mgmt, client, polled, render, intake>>

\* the loop ends on a code no committed row has
Accept(k) ==
    /\ creating[k].pc = "drawn"
    /\ TokenByCode(creating[k].code) = {}
    /\ creating' = [creating EXCEPT ![k].pc = "chosen"]
    /\ UNCHANGED <<now, users, tokens, records, rules, tokensMade, rulesMade, budget, slots, req, mgmt, client, polled, render, intake>>

\* db.add(db_token); await db.flush(): the INSERT, once the write lock is free.
\* A code committed since the SELECT raises IntegrityError, which nothing
\* catches: rollback, 500
Insert(k) ==
    /\ creating[k].pc = "chosen"
    /\ ~CreateLocked(k)
    /\ creating' = [creating EXCEPT ![k] =
                      IF CodeTaken(creating[k].code)
                      THEN [@ EXCEPT !.pc = "failed", !.status = 500]
                      ELSE [@ EXCEPT !.pc = "flushed"]]
    /\ UNCHANGED <<now, users, tokens, records, rules, tokensMade, rulesMade, budget, slots, req, mgmt, client, polled, render, intake>>

\* the handler returns TokenResponse and get_db commits
Created(k) ==
    /\ creating[k].pc = "flushed"
    /\ tokens' = tokens \cup {[id |-> tokensMade + 1, code |-> creating[k].code,
                               user |-> creating[k].user,
                               expires |-> CreateExpiry(creating[k].ttl, now), active |-> TRUE]}
    /\ tokensMade' = tokensMade + 1
    /\ creating' = [creating EXCEPT ![k].pc = "done", ![k].status = 200]
    /\ UNCHANGED <<now, users, records, rules, rulesMade, budget, slots, req, mgmt, client, polled, render, intake>>

(* ------------------------------ rule URLs ----------------------------- *)
\* name of PocRuleCreate is any string: names with and without a "/"
UrlNames == {<<"a">>, <<"b">>, <<"a", "/", "b">>}

\* url=f"/c/{token.token}/p/{rule.name}": the sub-path of the URL after the code
AdvertisedPath(name) == <<"p", "/">> \o name

(* ---------------------------- specification --------------------------- *)
NoCall == Call("none", "u1", 0, 0, "")

Init ==
    /\ now = 0
    /\ users = {"u1"}
    /\ tokens = {}
    /\ records = {}
    /\ rules = {}
    /\ tokensMade = 0
    /\ rulesMade = 0
    /\ budget = MaxOps
    /\ slots = 1
    /\ req = [r \in Reqs |-> IdleReq]
    /\ mgmt = NoCall
    /\ client = [since |-> None, seen |-> {}]
    /\ polled = NoPoll
    /\ render = NoRender
    /\ intake = NoIntake
    /\ creating = NoCreates

Next ==
    \/ \E r \in Reqs, code \in Codes : Resolve(r, code)
    \/ \E r \in Reqs, path \in Paths, method \in ReqMethods : Record(r, path, method)
    \/ \E r \in Reqs : Lookup(r)
    \/ \E r \in Reqs : Hit(r)
    \/ \E r \in Reqs : Wake(r)
    \/ \E r \in Reqs : Commit(r)
    \/ \E r \in Reqs : Send(r)
    \/ Tick
    \/ \E user \in users, ttl \in TTLs, code \in Codes : create_token(user, ttl, code)
    \/ \E user \in users, tid \in TokenIds : delete_token(user, tid)
    \/ \E user \in users, tid \in TokenIds, hours \in RenewHours : renew_token(user, tid, hours)
    \/ \E user \in users, tid \in TokenIds : clear_records(user, tid)
    \/ \E user \in users, tid \in TokenIds, name \in Names, delay \in Delays :
          create_poc_rule(user, tid, name, delay)
    \/ \E user \in users, tid \in TokenIds, rid \in RuleIds, patch \in Patches :
          update_poc_rule(user, tid, rid, patch)
    \/ \E user \in users, tid \in TokenIds, rid \in RuleIds : delete_poc_rule(user, tid, rid)

Spec == Init /\ [][Next]_vars

\* the same service with NReq capture requests in flight at once
InitConc ==
    /\ now = 0
    /\ users = {"u1"}
    /\ tokens = {}
    /\ records = {}
    /\ rules = {}
    /\ tokensMade = 0
    /\ rulesMade = 0
    /\ budget = ConcOps
    /\ slots = NReq
    /\ req = [r \in Reqs |-> IdleReq]
    /\ mgmt = NoCall
    /\ client = [since |-> None, seen |-> {}]
    /\ polled = NoPoll
    /\ render = NoRender
    /\ intake = NoIntake
    /\ creating = NoCreates

\* with requests in flight at once a flush can run into the busy timeout
NextConc ==
    \/ Next
    \/ \E r \in Reqs, path \in Paths : Locked(r, path)

SpecConc == InitConc /\ [][NextConc]_vars

\* the interactions of Preload earlier GET requests to the root of token 1,
\* one per instant up to the present
PreloadedRecords ==
    {[id |-> NReq + i, token_id |-> 1, token |-> "c1", timestamp |-> 1 - i,
      method |-> "GET", path |-> <<"/">>, is_poc_hit |-> FALSE, poc_rule_name |-> None]
        : i \in 1 .. Preload}

\* the service after u1 has created two never-expiring tokens and, on the first,
\* a delayed rule "a", and the first token has received Preload requests
InitPoll ==
    /\ now = 0
    /\ users = {"u1"}
    /\ tokens = {[id |-> 1, code |-> "c1", user |-> "u1", expires |-> None, active |-> TRUE],
                 [id |-> 2, code |-> "c2", user |-> "u1", expires |-> None, active |-> TRUE]}
    /\ records = PreloadedRecords
    /\ rules = {NewRule(1, 1, <<"a">>, 1)}
    /\ tokensMade = 2
    /\ rulesMade = 1
    /\ budget = PollOps
    /\ slots = NReq
    /\ req = [r \in Reqs |-> IdleReq]
    /\ mgmt = NoCall
    /\ client = [since |-> None, seen |-> {}]
    /\ polled = NoPoll
    /\ render = NoRender
    /\ intake = NoIntake
    /\ creating = NoCreates

\* the requests, the clock, the polls and the calls that delete interactions
NextPoll ==
    \/ \E r \in Reqs, code \in Codes : Resolve(r, code)
    \/ \E r \in Reqs, path \in {<<>>, <<"p", "/", "a">>} : Record(r, path, "GET")
    \/ \E r \in Reqs, path \in {<<>>, <<"p", "/", "a">>} : Locked(r, path)
    \/ \E r \in Reqs : Lookup(r)
    \/ \E r \in Reqs : Hit(r)
    \/ \E r \in Reqs : Wake(r)
    \/ \E r \in Reqs : Commit(r)
    \/ \E r \in Reqs : Send(r)
    \/ Tick
    \/ \E user \in users, tid \in TokenIds : delete_token(user, tid)
    \/ \E user \in users, tid \in TokenIds : clear_records(user, tid)
    \/ \E user \in users, tid \in TokenIds, since \in SinceInputs : poll_records(user, tid, since)
    \/ client_poll

SpecPoll == InitPoll /\ [][NextPoll]_vars

\* the service after u1 has created a token that is expired and, on it, a
\* delayed rule "a"
InitRenew ==
    /\ now = 0
    /\ users = {"u1"}
    /\ tokens = {[id |-> 1, code |-> "c1", user |-> "u1", expires |-> Some(-1), active |-> TRUE]}
    /\ records = {}
    /\ rules = {NewRule(1, 1, <<"a">>, 1)}
    /\ tokensMade = 1
    /\ rulesMade = 1
    /\ budget = RenewOps
    /\ slots = NReq
    /\ req = [r \in Reqs |-> IdleReq]
    /\ mgmt = NoCall
    /\ client = [since |-> None, seen |-> {}]
    /\ polled = NoPoll
    /\ render = NoRender
    /\ intake = NoIntake
    /\ creating = NoCreates

\* the requests and the renewal of the token
NextRenew ==
    \/ \E r \in Reqs, code \in Codes : Resolve(r, code)
    \/ \E r \in Reqs, path \in {<<>>, <<"p", "/", "a">>}, method \in ReqMethods :
          Record(r, path, method)
    \/ \E r \in Reqs, path \in {<<>>, <<"p", "/", "a">>} : Locked(r, path)
    \/ \E r \in Reqs : Lookup(r)
    \/ \E r \in Reqs : Hit(r)
    \/ \E r \in Reqs : Wake(r)
    \/ \E r \in Reqs : Commit(r)
    \/ \E r \in Reqs : Send(r)
    \/ \E user \in users, tid \in TokenIds, hours \in RenewHours : renew_token(user, tid, hours)

SpecRenew == InitRenew /\ [][NextRenew]_vars

\* two accounts, each with a token that has a rule and an interaction
InitOwn ==
    /\ now = 0
    /\ users = {"u1", "u2"}
    /\ tokens = {[id |-> 1, code |-> "c1", user |-> "u1", expires |-> None, active |-> TRUE],
                 [id |-> 2, code |-> "c2", user |-> "u2", expires |-> Some(-1), active |-> TRUE]}
    /\ records = {NewRecord(NReq + 1, 1, "c1", "GET", <<>>, 0),
                  NewRecord(NReq + 2, 2, "c2", "GET", <<>>, 0)}
    /\ rules = {NewRule(1, 1, <<"a">>, 0), NewRule(2, 2, <<"a">>, 0)}
    /\ tokensMade = 2
    /\ rulesMade = 2
    /\ budget = OwnOps
    /\ slots = 0
    /\ req = [r \in Reqs |-> IdleReq]
    /\ mgmt = NoCall
    /\ client = [since |-> None, seen |-> {}]
    /\ polled = NoPoll
    /\ render = NoRender
    /\ intake = NoIntake
    /\ creating = NoCreates

\* the management calls on existing tokens, by either account
NextOwn ==
    \/ \E user \in users : list_tokens(user)
    \/ \E user \in users, tid \in TokenIds : get_token_stats(user, tid)
    \/ \E user \in users, tid \in TokenIds : get_records(user, tid)
    \/ \E user \in users, tid \in TokenIds : list_poc_rules(user, tid)
    \/ \E user \in users, tid \in TokenIds, since \in SinceInputs : poll_records(user, tid, since)
    \/ \E user \in users, tid \in TokenIds : delete_token(user, tid)
    \/ \E user \in users, tid \in TokenIds, hours \in RenewHours : renew_token(user, tid, hours)
    \/ \E user \in users, tid \in TokenIds : clear_records(user, tid)
    \/ \E user \in users, tid \in TokenIds, name \in Names, delay \in Delays :
          create_poc_rule(user, tid, name, delay)
    \/ \E user \in users, tid \in TokenIds, rid \in RuleIds, patch \in Patches :
          update_poc_rule(user, tid, rid, patch)
    \/ \E user \in users, tid \in TokenIds, rid \in RuleIds : delete_poc_rule(user, tid, rid)

SpecOwn == InitOwn /\ [][NextOwn]_vars
\* a matched rule and the request that matched it, for every rule and request
\* of the input sets
InitRender ==
    /\ now = 0
    /\ users = {"u1"}
    /\ tokens = {}
    /\ records = {}
    /\ rules = {}
    /\ tokensMade = 0
    /\ rulesMade = 0
    /\ budget = 0
    /\ slots = 0
    /\ req = [r \in Reqs |-> IdleReq]
    /\ mgmt = NoCall
    /\ client = [since |-> None, seen |-> {}]
    /\ polled = NoPoll
    /\ \E body \in Templates, url \in Redirects, headers \in RuleHeaders,
          ctype \in ContentTypes, vars_on \in BOOLEAN, status \in StatusCodes,
          ip \in ClientIps, host \in Hosts, ua \in UserAgents,
          path \in RulePaths, query \in Queries :
          render = [pc        |-> "matched",
                    rule      |-> [status_code |-> status, content_type |-> ctype,
                                   response_body |-> body, response_headers |-> headers,
                                   redirect_url |-> url, enable_variables |-> vars_on],
                    request   |-> [method |-> "GET", path |-> path, host |-> host,
                                   user_agent |-> ua, query |-> query],
                    client_ip |-> ip,
                    token     |-> "c1",
                    resp      |-> None]
    /\ intake = NoIntake
    /\ creating = NoCreates

NextRender == Respond

SpecRender == InitRender /\ [][NextRender]_vars

\* a request to a known token, for every query string and body of the inputs
InitExfil ==
    /\ now = 0
    /\ users = {"u1"}
    /\ tokens = {}
    /\ records = {}
    /\ rules = {}
    /\ tokensMade = 0
    /\ rulesMade = 0
    /\ budget = 0
    /\ slots = 0
    /\ req = [r \in Reqs |-> IdleReq]
    /\ mgmt = NoCall
    /\ client = [since |-> None, seen |-> {}]
    /\ polled = NoPoll
    /\ render = NoRender
    /\ \E query \in ExfilQueries, body \in Bodies :
          intake = [pc |-> "received", query |-> query, body |-> body,
                    is_data_exfil |-> FALSE, exfil_type |-> None, exfil_data |-> None]
    /\ creating = NoCreates

NextExfil == Classify

SpecExfil == InitExfil /\ [][NextExfil]_vars

\* a request to a known token, for every set of address headers and every peer
InitClientIp ==
    /\ now = 0
    /\ users = {"u1"}
    /\ tokens = {}
    /\ records = {}
    /\ rules = {}
    /\ tokensMade = 0
    /\ rulesMade = 0
    /\ budget = 0
    /\ slots = 0
    /\ req = [r \in Reqs |-> IdleReq]
    /\ mgmt = NoCall
    /\ client = [since |-> None, seen |-> {}]
    /\ polled = NoPoll
    /\ render = NoRender
    /\ \E headers \in IpHeaderSets, peer \in Peers :
          intake = [pc |-> "connected", headers |-> headers, peer |-> peer,
                    client_ip |-> <<>>]
    /\ creating = NoCreates

NextClientIp == Identify

SpecClientIp == InitClientIp /\ [][NextClientIp]_vars

\* create_token calls of two accounts, side by side, on an empty store
InitCreate ==
    /\ now = 0
    /\ users = {"u1", "u2"}
    /\ tokens = {}
    /\ records = {}
    /\ rules = {}
    /\ tokensMade = 0
    /\ rulesMade = 0
    /\ budget = 0
    /\ slots = 0
    /\ req = [r \in Reqs |-> IdleReq]
    /\ mgmt = NoCall
    /\ client = [since |-> None, seen |-> {}]
    /\ polled = NoPoll
    /\ render = NoRender
    /\ intake = NoIntake
    /\ creating = NoCreates

NextCreate ==
    \/ \E k \in Creates, user \in users, ttl \in {{}, {1}}, code \in Codes : Draw(k, user, ttl, code)
    \/ \E k \in Creates, code \in Codes : Redraw(k, code)
    \/ \E k \in Creates : Accept(k)
    \/ \E k \in Creates : Insert(k)
    \/ \E k \in Creates : Created(k)

SpecCreate == InitCreate /\ [][NextCreate]_vars

\* the loop draws a code whenever it can
Progress(k) == (\E code \in Codes : Redraw(k, code)) \/ Accept(k) \/ Insert(k) \/ Created(k)

\* every call that has started keeps running, and a draw that can give an
\* unused code infinitely often does give one
SpecCreateLive ==
    /\ InitCreate
    /\ [][NextCreate]_vars
    /\ \A k \in Creates : WF_vars(Progress(k))
    /\ \A k \in Creates :
          SF_vars(\E code \in Codes : Redraw(k, code) /\ TokenByCode(code) = {})

\* the service after u1 has created two never-expiring tokens, a rule "a" on
\* the first and a rule "b" on the second, and each token has received one
\* request to its rule
InitFrame ==
    /\ now = 0
    /\ users = {"u1"}
    /\ tokens = {[id |-> 1, code |-> "c1", user |-> "u1", expires |-> None, active |-> TRUE],
                 [id |-> 2, code |-> "c2", user |-> "u1", expires |-> None, active |-> TRUE]}
    /\ records = {[id |-> NReq + 1, token_id |-> 1, token |-> "c1", timestamp |-> 0,
                   method |-> "GET", path |-> <<"/", "p", "/", "a">>, is_poc_hit |-> TRUE,
                   poc_rule_name |-> Some(<<"a">>)],
                  [id |-> NReq + 2, token_id |-> 2, token |-> "c2", timestamp |-> 0,
                   method |-> "GET", path |-> <<"/", "p", "/", "b">>, is_poc_hit |-> TRUE,
                   poc_rule_name |-> Some(<<"b">>)]}
    /\ rules = {[NewRule(1, 1, <<"a">>, 1) EXCEPT !.hit_count = 1],
                [NewRule(2, 2, <<"b">>, 0) EXCEPT !.hit_count = 1]}
    /\ tokensMade = 2
    /\ rulesMade = 2
    /\ budget = FrameOps
    /\ slots = NReq
    /\ req = [r \in Reqs |-> IdleReq]
    /\ mgmt = NoCall
    /\ client = [since |-> None, seen |-> {}]
    /\ polled = NoPoll
    /\ render = NoRender
    /\ intake = NoIntake
    /\ creating = NoCreates

\* capture requests to the root and to the two rules, and the management calls
\* on the tokens and rules that exist
NextFrame ==
    \/ \E r \in Reqs, code \in Codes : Resolve(r, code)
    \/ \E r \in Reqs, path \in {<<>>, <<"p", "/", "a">>, <<"p", "/", "b">>} : Record(r, path, "GET")
    \/ \E r \in Reqs, path \in {<<>>, <<"p", "/", "a">>} : Locked(r, path)
    \/ \E r \in Reqs : Lookup(r)
    \/ \E r \in Reqs : Hit(r)
    \/ \E r \in Reqs : Wake(r)
    \/ \E r \in Reqs : Abort(r)
    \/ \E r \in Reqs : Commit(r)
    \/ \E r \in Reqs : Send(r)
    \/ \E user \in users, tid \in TokenIds : delete_token(user, tid)
    \/ \E user \in users, tid \in TokenIds, hours \in RenewHours : renew_token(user, tid, hours)
    \/ \E user \in users, tid \in TokenIds : clear_records(user, tid)
    \/ \E user \in users, tid \in TokenIds, rid \in RuleIds, patch \in Patches :
          update_poc_rule(user, tid, rid, patch)
    \/ \E user \in users, tid \in TokenIds, rid \in RuleIds : delete_poc_rule(user, tid, rid)

SpecFrame == InitFrame /\ [][NextFrame]_vars

\* the service after u1 has created a never-expiring token
InitReach ==
    /\ now = 0
    /\ users = {"u1"}
    /\ tokens = {[id |-> 1, code |-> "c1", user |-> "u1", expires |-> None, active |-> TRUE]}
    /\ records = {}
    /\ rules = {}
    /\ tokensMade = 1
    /\ rulesMade = 0
    /\ budget = ReachOps
    /\ slots = NReq
    /\ req = [r \in Reqs |-> IdleReq]
    /\ mgmt = NoCall
    /\ client = [since |-> None, seen |-> {}]
    /\ polled = NoPoll
    /\ render = NoRender
    /\ intake = NoIntake
    /\ creating = NoCreates

\* rules are created under the names of UrlNames and requests are made to the
\* URLs the API returns for those names
NextReach ==
    \/ \E user \in users, tid \in TokenIds, name \in UrlNames : create_poc_rule(user, tid, name, 0)
    \/ \E r \in Reqs, code \in Codes : Resolve(r, code)
    \/ \E r \in Reqs, name \in UrlNames : Record(r, AdvertisedPath(name), "GET")
    \/ \E r \in Reqs : Lookup(r)
    \/ \E r \in Reqs : Hit(r)
    \/ \E r \in Reqs : Commit(r)
    \/ \E r \in Reqs : Send(r)

SpecReach == InitReach /\ [][NextReach]_vars

(* ------------------------------- claims ------------------------------- *)
\* the fixed plain-text responses, written out
Text(status, body) == {[kind |-> "plain", status |-> status, body |-> body, rule |-> 0]}

\* request r has just stopped running (committed, or rolled back by an exception)
Finishes(r) == req[r].pc # "done" /\ req'[r].pc = "done"

\* C1: every capture request whose code resolves to a token has, once it has
\* finished, committed exactly one Interaction for that token, whatever rules
\* the management calls before it have left on the token
C1_ExactlyOneInteraction ==
    [][\A r \in Reqs :
          (Finishes(r) /\ req'[r].tid # 0)
             => \E x \in records' :
                   /\ x.id = r
                   /\ x.token_id = req'[r].tid
                   /\ records' \ records = {x}]_vars

\* C2: a request whose code matches no token is answered 404 "Not Found",
\* inserts nothing, and neither its handling nor its commit changes a token, an
\* Interaction or a rule
C2_UnknownTokenNotFound ==
    [][\A r \in Reqs :
          /\ (req[r].pc = "idle" /\ req'[r].pc # "idle"
                /\ \A t \in tokens : t.code # req'[r].code)
                => /\ req'[r].resp = Text(404, <<"Not Found">>)
                   /\ req'[r].tid = 0
                   /\ req'[r].rec = {}
                   /\ req'[r].hitw = {}
                   /\ UNCHANGED <<tokens, records, rules>>
          /\ (req[r].pc # "idle" /\ req[r].tid = 0 /\ req'[r] # req[r])
                => /\ req'[r].resp = req[r].resp
                   /\ UNCHANGED <<tokens, records, rules>>]_vars

\* an unknown-code request has been answered and committed while a token and
\* a rule exist
C2_Witness ==
    \E r \in Reqs :
        /\ req[r].pc = "done" /\ req[r].sent /\ req[r].tid = 0
        /\ req[r].resp = Text(404, <<"Not Found">>)
        /\ tokens # {} /\ rules # {}

\* C3: when the response of a request to a known token reaches the caller, the
\* request's Interaction is committed (a poll without `since` returns it)
C3_CommittedBeforeResponse ==
    [][\A r \in Reqs :
          (~req[r].sent /\ req'[r].sent /\ req'[r].tid # 0
             /\ \A a \in req'[r].resp : a.kind # "error")
             => \E x \in records' : x.id = r /\ x.token_id = req'[r].tid]_vars

\* the rule name a "p/" sub-path names: the characters after "p/" up to the
\* next "/"
NamedRule(path, name) ==
    /\ Len(path) >= 2 + Len(name)
    /\ SubSeq(path, 3, 2 + Len(name)) = name
    /\ \A i \in 1 .. Len(name) : name[i] # "/"
    /\ (Len(path) > 2 + Len(name) => path[3 + Len(name)] = "/")

\* C4: when all requests have completed, the committed hit_count of an active
\* rule is the number of requests that were made to the rule (those to its
\* path that were not answered "not found" for want of the rule)
C4_NoLostHit ==
    (\A r \in Reqs : req[r].pc \in {"idle", "done"})
       => \A x \in rules :
             x.active
                => x.hit_count =
                      Cardinality({r \in Reqs :
                          /\ req[r].pc = "done"
                          /\ req[r].tid = x.token_id
                          /\ NamedRule(req[r].path, x.name)
                          /\ StartsWith(req[r].path, <<"p", "/">>)
                          /\ \A a \in req[r].resp : a.status # 404})

\* the response just given to request r
Answers(r) == req[r].resp = {} /\ req'[r].resp # {}

\* C5: for a known token and a sub-path that does not start with "p/" the
\* response is 200 "OK" when the token is unexpired (expires_at null or not
\* before now) and 410 "Token Expired (but recorded)" when it is expired; a
\* sub-path that starts with "p/" never gets the 410 body, and on an expired
\* token a request that finds an active rule of that name is answered by the rule
C5_DefaultBodyByExpiry ==
    [][\A r \in Reqs :
          /\ (req[r].pc = "idle" /\ req'[r].pc = "resolved")
                => \E t \in tokens :
                      /\ t.code = req'[r].code
                      /\ req'[r].expired = (t.expires # {} /\ \A e \in t.expires : e < now)
          /\ (Answers(r) /\ req'[r].tid # 0 /\ ~StartsWith(req'[r].path, <<"p", "/">>))
                => req'[r].resp = IF req[r].expired
                                  THEN Text(410, <<"Token Expired (but recorded)">>)
                                  ELSE Text(200, <<"OK">>)
          /\ (Answers(r) /\ StartsWith(req'[r].path, <<"p", "/">>))
                => req'[r].resp # Text(410, <<"Token Expired (but recorded)">>)
          /\ (Answers(r) /\ req[r].expired /\ req[r].rule # {})
                => \E x \in req[r].rule :
                      /\ x.active /\ x.token_id = req[r].tid
                      /\ req'[r].resp = {[kind |-> "rule", status |-> x.status_code,
                                          body |-> <<>>, rule |-> x.id]}]_vars

\* C6: a request to a known token whose "p/" sub-path names a rule that is not
\* an active rule of that token is answered 404 "PoC Rule '<name>' not found",
\* not a 5xx, and changes no rule's hit_count
C6_UnmatchedRuleNotFound ==
    [][\A r \in Reqs :
          /\ (Answers(r) /\ req[r].tid # 0 /\ StartsWith(req'[r].path, <<"p", "/">>)
                /\ \A x \in rules : ~(x.token_id = req[r].tid /\ x.active
                                        /\ NamedRule(req'[r].path, x.name)))
                => /\ \E a \in req'[r].resp :
                         /\ a.status = 404
                         /\ a.kind = "plain"
                         /\ \E n \in {SubSeq(req'[r].path, 3, k) : k \in 2 .. Len(req'[r].path)} :
                               /\ NamedRule(req'[r].path, n)
                               /\ a.body = <<"PoC Rule '">> \o n \o <<"' not found">>
                   /\ req'[r].hitw = {} /\ req'[r].matched = 0
                   /\ rules' = rules
          /\ (req[r].pc = "returned" /\ req'[r].pc = "done" /\ req[r].matched = 0)
                => rules' = rules]_vars

\* every Interaction a request has inserted, committed or not
Inserted == records \cup UNION {req[r].rec : r \in Reqs}

\* C7: an Interaction has is_poc_hit exactly when the sub-path begins with
\* "p/", and then poc_rule_name is the first segment after the prefix; both
\* depend on the path alone, not on the rules of the token
C7_PocHitFromPathAlone ==
    \A x \in Inserted :
        LET sub == Tail(x.path)
        IN  /\ Head(x.path) = "/"
            /\ x.is_poc_hit = (Len(sub) >= 2 /\ sub[1] = "p" /\ sub[2] = "/")
            /\ (~x.is_poc_hit => x.poc_rule_name = {})
            /\ (x.is_poc_hit => \E n \in x.poc_rule_name : NamedRule(sub, n))
            /\ (x.id \in Reqs => sub = req[x.id].path)

\* "p/a/x" was recorded as a hit of "a" on a token without any rule, and answered 404
C7_Witness ==
    \E x \in records :
        /\ x.path = <<"/", "p", "/", "a", "/", "x">>
        /\ x.is_poc_hit /\ x.poc_rule_name = {<<"a">>}
        /\ \A y \in rules : y.token_id # x.token_id
        /\ \E a \in req[x.id].resp : a.status = 404
\* C8: a client that polls with the latest timestamp it has been returned is
\* never past an Interaction it has not been returned: every committed
\* Interaction of its token that it has not seen is newer than its `since`, so
\* that a later poll returns it
C8_NothingSkipped ==
    \A x \in records :
        (x.token_id = ClientToken /\ x.id \notin client.seen)
           => \A s \in client.since : x.timestamp > s

\* the rows of the last poll
Returned == {polled.result[i] : i \in 1 .. Len(polled.result)}

\* C9: an Interaction that a poll returned and that has not been deleted since
\* is returned by a poll of the same token with the same `since`, however many
\* requests the token has received meanwhile
C9_NoDisappearance ==
    polled.status = 200
       => \A x \in Returned :
             x \in records => \A page \in PollPages(polled.tid, polled.since) : x \in page

\* C9, as the code has it: the same, as long as the token has at most 50
\* Interactions that pass the `since` filter
C9_NoDisappearanceWithinPage ==
    (polled.status = 200
       /\ Cardinality({x \in records :
              /\ x.token_id = polled.tid
              /\ (polled.since # <<>> /\ Head(polled.since) = "iso")
                    => x.timestamp > polled.since[2]}) <= 50)
       => \A x \in Returned :
             x \in records => \A page \in PollPages(polled.tid, polled.since) : x \in page

\* after a poll that returned rows, a request to the token has committed its
\* Interaction, and the rows are all still returned
C9_Witness ==
    /\ polled.status = 200
    /\ Returned # {}
    /\ Returned \subseteq records
    /\ \E x \in records : x.token_id = polled.tid /\ x.id \in Reqs /\ x \notin Returned
    /\ \A page \in PollPages(polled.tid, polled.since) : Returned \subseteq page

\* C10: a poll returns only Interactions of the polled token, newest first, at
\* most 50 of them, and with a `since` timestamp only those strictly newer
C10_PollShape ==
    polled.status = 200
       => /\ Len(polled.result) <= 50
          /\ \A i \in 1 .. Len(polled.result) :
                /\ polled.result[i].token_id = polled.tid
                /\ (i > 1 => polled.result[i - 1].timestamp >= polled.result[i].timestamp)
                /\ (polled.since # <<>> /\ Head(polled.since) = "iso")
                      => polled.result[i].timestamp > polled.since[2]

\* a poll with a `since` timestamp returned rows and left out the Interaction
\* made at that instant
C10_Witness ==
    /\ polled.status = 200
    /\ polled.since # <<>> /\ Head(polled.since) = "iso"
    /\ Returned # {}
    /\ \E x \in records :
          /\ x.token_id = polled.tid
          /\ x.timestamp = polled.since[2]
          /\ x \notin Returned
\* C11: no two rules of one token have the same name, whatever creates,
\* updates (renames included) and deletes have been applied
C11_RuleNamesUnique ==
    \A x \in rules : \A y \in rules :
        (x.token_id = y.token_id /\ x.name = y.name) => x.id = y.id

\* C12: when delete_token has committed, no Interaction and no rule with the
\* deleted token's id remains
C12_DeleteCascades ==
    [][\A t \in tokens :
          (\A u \in tokens' : u.id # t.id)
             => /\ \A x \in records' : x.token_id # t.id
                /\ \A x \in rules' : x.token_id # t.id]_vars

\* C17: a token just created has expires_at = now + ttl for ttl > 0 and null
\* otherwise, so that it is not expired at its creation
C17_CreatedUnexpired ==
    [][\A t \in tokens' :
          (\A u \in tokens : u.id # t.id)
             => /\ t.active
                /\ \A e \in t.expires : e > now']_vars
\* the next step of request q's handling, up to its commit
Proceeds(q) ==
    \/ \E path \in Paths, method \in ReqMethods : Record(q, path, method)
    \/ Lookup(q)
    \/ Hit(q)
    \/ Commit(q)

\* C14: while a request waits in a rule's delay, every other request that is
\* being handled can take its next step (insert, look up, count its hit,
\* commit) without waiting for the first: no lock spans the delay
C14_DelayBlocksNobody ==
    \A r \in Reqs :
        req[r].pc = "sleep"
           => \A q \in Reqs \ {r} :
                 req[q].pc \in {"resolved", "lookup", "hit", "returned"} => ENABLED Proceeds(q)
\* C13: a request to a known token whose insert fails is still answered with
\* one of the fixed default responses, not with an unhandled error
C13_AnsweredDespiteFailure ==
    [][\A r \in Reqs :
          (req[r].pc = "resolved" /\ req'[r].pc # "resolved" /\ req'[r].rec = {})
             => req'[r].resp \in {Text(200, <<"OK">>),
                                  Text(410, <<"Token Expired (but recorded)">>)}]_vars
\* a management call by `user` that names token `tid`
CallOn(user, tid) ==
    \/ delete_token(user, tid)
    \/ \E hours \in RenewHours : renew_token(user, tid, hours)
    \/ get_token_stats(user, tid)
    \/ get_records(user, tid)
    \/ clear_records(user, tid)
    \/ \E since \in SinceInputs : poll_records(user, tid, since)
    \/ \E name \in Names, delay \in Delays : create_poc_rule(user, tid, name, delay)
    \/ list_poc_rules(user, tid)
    \/ \E rid \in RuleIds, patch \in Patches : update_poc_rule(user, tid, rid, patch)
    \/ \E rid \in RuleIds : delete_poc_rule(user, tid, rid)

\* C15: a management call on a token by a user who does not own it is answered
\* 404 "Token not found", returns no rows and changes no token, Interaction or
\* rule; list_tokens returns only the caller's tokens; update_poc_rule and
\* delete_poc_rule leave every rule alone that is not the named rule of the
\* named token
C15_OwnerScoped ==
    [][/\ \A user \in users, tid \in TokenIds :
             ((\A t \in tokens : t.id = tid => t.user # user) /\ CallOn(user, tid))
                => /\ UNCHANGED <<tokens, records, rules>>
                   /\ \/ /\ mgmt'.status = 404
                         /\ mgmt'.detail = "Token not found"
                         /\ mgmt'.data = {}
                         /\ polled' = polled
                      \/ /\ polled'.status = 404
                         /\ polled'.result = <<>>
                         /\ mgmt' = mgmt
       /\ \A user \in users :
             list_tokens(user)
                => /\ \A t \in mgmt'.data : t.user = user
                   /\ \A t \in tokens : t.user = user => \E d \in mgmt'.data : d.id = t.id
       /\ \A user \in users, tid \in TokenIds, rid \in RuleIds :
             (delete_poc_rule(user, tid, rid)
                \/ \E patch \in Patches : update_poc_rule(user, tid, rid, patch))
                => \A x \in rules : (x.id # rid \/ x.token_id # tid) => x \in rules']_vars

\* a call was refused with "Token not found" although both tokens exist, with
\* their Interactions and rules: the caller was not the owner
C15_Witness ==
    /\ mgmt.status = 404
    /\ mgmt.detail = "Token not found"
    /\ \A tid \in TokenIds :
          /\ \E t \in tokens : t.id = tid
          /\ \E x \in records : x.token_id = tid
          /\ \E x \in rules : x.token_id = tid
\* C16: renewing an owned token sets expires_at to now + hours for hours > 0
\* and to null otherwise, and sets it active; the token is then unexpired, and a
\* request to the root of the renewed token is answered 200 "OK"
C16_RenewRevives ==
    [][/\ \A user \in users, tid \in TokenIds, hours \in RenewHours :
             ((\E t \in tokens : t.id = tid /\ t.user = user) /\ renew_token(user, tid, hours))
                => \E t \in tokens' :
                      /\ t.id = tid
                      /\ t.active
                      /\ t.expires = IF hours > 0 THEN {now + hours} ELSE {}
                      /\ \A e \in t.expires : ~(e < now)
                      /\ \A u \in tokens' : u.id = tid => u = t
       /\ \A r \in Reqs :
             (req[r].pc = "idle" /\ req'[r].pc = "resolved")
                => \E t \in tokens :
                      /\ t.code = req'[r].code
                      /\ (t.expires = {} => ~req'[r].expired)
       /\ \A r \in Reqs :
             (Answers(r) /\ req[r].tid # 0 /\ ~req[r].expired /\ req'[r].path = <<>>)
                => req'[r].resp = Text(200, <<"OK">>)]_vars

\* the values a rendering works with
RenderValues == Replacements(render.request, render.client_ip, render.token)
\* the rule is rendered with enable_variables on
Substituted == render.pc = "responded" /\ render.rule.enable_variables
\* the template that was rendered, and the text that came out of it
RenderedFrom == IF render.rule.redirect_url # <<>> THEN render.rule.redirect_url
                ELSE render.rule.response_body
RenderedText == IF render.rule.redirect_url # <<>> THEN The(render.resp).headers["Location"]
                ELSE The(render.resp).body

\* what stands for one piece of the template: the value of its placeholder, or
\* the piece itself
ValueOf(piece) ==
    IF \E i \in DOMAIN FixedSymbols : FixedSymbols[i] = piece
    THEN RenderValues[CHOOSE i \in DOMAIN FixedSymbols : FixedSymbols[i] = piece]
    ELSE IF IsParam(piece) THEN ParamValue(render.request.query, ParamName(piece))
    ELSE <<piece>>

\* one pass over a template: each piece gives its value, and no value is looked
\* at again
RECURSIVE SinglePass(_)
SinglePass(content) ==
    IF content = <<>> THEN <<>> ELSE ValueOf(Head(content)) \o SinglePass(Tail(content))

\* C18: substitution is a single pass over the rule author's template: the text
\* that comes out is the template with each placeholder replaced by its value,
\* and a placeholder inside a substituted value (client IP, path, Host,
\* User-Agent, query parameter) is emitted literally.
C18_SinglePassOverTemplate ==
    Substituted => RenderedText = SinglePass(RenderedFrom)

\* the symbols the request and the clock resolve
ResolvedSymbols ==
    {"{{client_ip}}", "{{timestamp}}", "{{method}}", "{{path}}", "{{host}}",
     "{{user_agent}}", "{{callback_url}}"}
Pieces(content) == {content[i] : i \in DOMAIN content}

\* C19: the body rendered from a template that contains every fixed symbol
\* contains none of them any more, whatever the request; and each {{param.X}}
\* of a template is replaced by the value of query parameter X, or by the empty
\* string when X is absent.
C19_NoSymbolLeft ==
    (Substituted /\ render.rule.redirect_url = <<>>) =>
        LET template == render.rule.response_body
            body     == The(render.resp).body
        IN  /\ ResolvedSymbols \subseteq Pieces(template)
                => Pieces(body) \cap ResolvedSymbols = {}
            /\ Pieces(template) \cap Pieces(FixedSymbols) = {}
                => body = SinglePass(template)

\* C20: in a non-redirect rule response every header configured on the rule
\* is in the response with the value the rule gives it, the Content-Type of the
\* rule's response_headers included, which wins over the content_type field.
C20_RuleHeadersWin ==
    (render.pc = "responded" /\ render.rule.redirect_url = <<>>) =>
        LET configured == render.rule.response_headers
            sent       == The(render.resp).headers
        IN  \A h \in DOMAIN configured : h \in DOMAIN sent /\ sent[h] = configured[h]

\* the response that was built
Built == The(render.resp)
\* a text of the rule as the response carries it
Shown(text) ==
    IF render.rule.enable_variables
    THEN replace_variables(text, render.request, render.client_ip, render.token)
    ELSE text

\* C21: a matched rule renders one of two shapes.  With a redirect_url the
\* response has an empty body and the Location header alone, which holds the
\* redirect_url, and is the same whatever the rule's response_body and
\* response_headers are; a response of the body shape (content type, body,
\* custom headers, the rule's status) comes only from a rule without
\* redirect_url.
C21_OneShape ==
    render.pc = "responded" =>
        /\ render.rule.redirect_url # <<>> =>
              /\ Built.body = <<>>
              /\ DOMAIN Built.headers = {"Location"}
              /\ Built.headers["Location"] = Shown(render.rule.redirect_url)
              /\ Built = RuleResponse([render.rule EXCEPT !.response_body = <<>>,
                                                          !.response_headers = NoHeaders],
                                      render.request, render.client_ip, render.token)
        /\ "Content-Type" \in DOMAIN Built.headers =>
              /\ render.rule.redirect_url = <<>>
              /\ Built.status = render.rule.status_code
              /\ Built.body = Shown(render.rule.response_body)
              /\ Built.headers["Content-Type"] = render.rule.content_type
              /\ DOMAIN Built.headers = DOMAIN render.rule.response_headers \cup {"Content-Type"}
        /\ render.rule.redirect_url = <<>> => "Content-Type" \in DOMAIN Built.headers

\* a rule with a redirect_url, a response_body and response_headers was rendered
C21_Witness ==
    /\ render.pc = "responded"
    /\ render.rule.redirect_url # <<>>
    /\ render.rule.response_body # <<>>
    /\ render.rule.response_headers # NoHeaders
    /\ Built.body = <<>>

\* the value of the first name of ExfilKeys that the query has
FirstNamed(query) ==
    LET present == {i \in DOMAIN ExfilKeys : query[ExfilKeys[i]] # None}
    IN  query[ExfilKeys[CHOOSE i \in present : \A j \in present : i <= j]]

Yield(i) ==
    IF i <= Len(IpHeaders) THEN HeaderIp(intake.headers, IpHeaders[i])
    ELSE IF Falsy(intake.peer) THEN <<>> ELSE The(intake.peer)
Sources == 1 .. Len(IpHeaders) + 1

\* C23: the recorded client address is what the first source gives that gives
\* a non-empty value, in the order CF-Connecting-IP, X-Real-IP, True-Client-IP,
\* X-Client-IP, X-Forwarded-For, transport peer; a header gives the trimmed
\* first element of its comma-separated value.  When no source gives a value
\* the address is "unknown".  A source that gives a value wins over every
\* later one, whatever the later ones hold.
C23_FirstSourceWins ==
    intake.pc = "identified" =>
        /\ \A i \in Sources :
              (Yield(i) # <<>> /\ \A j \in Sources : j < i => Yield(j) = <<>>)
                  => intake.client_ip = Yield(i)
        /\ (\A i \in Sources : Yield(i) = <<>>) => intake.client_ip = <<"unknown">>

\* X-Real-IP named an address between blanks in a list, CF-Connecting-IP had
\* only a blank first element, and X-Forwarded-For and the peer named others
C23_Witness ==
    /\ intake.pc = "identified"
    /\ intake.headers["CF-Connecting-IP"] = Some(<<" ", ",", "9.9.9.9">>)
    /\ intake.headers["X-Real-IP"] = Some(<<" ", "2.2.2.2", " ", ",", "9.9.9.9">>)
    /\ intake.headers["X-Forwarded-For"] = Some(<<"5.5.5.5">>)
    /\ intake.peer = Some(<<"10.0.0.1">>)
    /\ intake.client_ip = <<"2.2.2.2">>

\* C24: token codes are globally unique: no two tokens share a code, whatever
\* create_token calls ran and however they overlapped, so a code resolves to
\* at most one token.
C24_CodesUnique ==
    /\ \A t1, t2 \in tokens : t1.code = t2.code => t1 = t2
    /\ \A code \in Codes : Cardinality(TokenByCode(code)) <= 1

\* two calls of different accounts chose the same code side by side; one of
\* them created the token
C24_Witness ==
    \E j, k \in Creates :
        /\ creating[j].pc = "done" /\ creating[k].pc = "failed"
        /\ creating[j].code = creating[k].code
        /\ creating[j].user # creating[k].user
        /\ Cardinality(TokenByCode(creating[j].code)) = 1

\* C25: create_token always terminates: every call that has started ends,
\* with the token or, when its attempts all collide, with a Conflict; and it
\* fails with nothing but a Conflict.
C25_CreateTerminates ==
    /\ \A k \in Creates :
          (creating[k].pc \notin {"idle", "done", "failed"})
              ~> (creating[k].pc \in {"done", "failed"})
    /\ [](\A k \in Creates : creating[k].pc = "failed" => creating[k].status = 409)

\* the step clears the records of token tid or deletes the token
Removes(tid) == \E user \in users : clear_records(user, tid) \/ delete_token(user, tid)

\* C26: Interactions are append-only.  A committed Interaction keeps its
\* fields through every step, and it stays in the store unless the step is
\* clear_records or delete_token of its own token; these two leave the
\* Interactions of every other token as they are.
C26_AppendOnly ==
    [][ /\ \A x \in records : \A y \in records' : y.id = x.id => y = x
        /\ \A x \in records : x \in records' \/ Removes(x.token_id)
        /\ \A tid \in TokenIds : Removes(tid) =>
              \A x \in records : x.token_id # tid => x \in records' ]_vars

\* the Interaction of a finished request to a token that still exists has been
\* cleared, while the Interaction of another token is still there
C26_Witness ==
    \E r \in Reqs :
        /\ req[r].pc = "done"
        /\ \E a \in req[r].resp : a.status = 200
        /\ \E t \in tokens : t.id = req[r].tid
        /\ ~\E x \in records : x.id = r
        /\ \E x \in records : x.token_id # req[r].tid

\* the Interaction of request r is inserted in its session
Flushed(r) == req[r].rec # None

\* C27: in the handling of a request to a known token the Interaction is
\* inserted before any rule logic: the rule lookup, the hit_count increment,
\* the wait of delay_ms and the construction of the handler's response are
\* steps of a request whose Interaction is already inserted, on every path.
C27_RecordFirst ==
    [][\A r \in Reqs : req[r].tid # 0 =>
          /\ (req[r].pc = "lookup" /\ req'[r].pc # "lookup") => Flushed(r)
          /\ (req[r].hitw = None /\ req'[r].hitw # None) => Flushed(r)
          /\ (req[r].pc # "sleep" /\ req'[r].pc = "sleep") => Flushed(r)
          /\ (req[r].pc = "sleep" /\ req'[r].pc # "sleep") => Flushed(r)
          /\ (Answers(r) /\ \E a \in req'[r].resp : a.kind # "error")
                => req'[r].rec # None /\ (Flushed(r) \/ req[r].pc = "resolved")]_vars

\* a request waits in the delay of the rule it has hit, its Interaction inserted
C27_Witness ==
    \E r \in Reqs : req[r].pc = "sleep" /\ req[r].rec # None /\ req[r].hitw # None

\* request r is made to the active rule x of its token
MadeTo(r, x) ==
    /\ req[r].tid = x.token_id
    /\ IsPocPath(req[r].path)
    /\ RuleNameOf(req[r].path) = x.name
    /\ x.active

\* C28: a rule's hit_count changes only when a capture request that matches
\* that active rule completes, and each such request, handled alone, raises it
\* by exactly 1.  A new rule starts at 0; hit_count never decreases; and
\* update_poc_rule, renew_token, clear_records and requests that match another
\* rule or none leave it as it is.
C28_HitCountFrame ==
    [][ /\ \A y \in rules' : (~\E x \in rules : x.id = y.id) => y.hit_count = 0
        /\ \A x \in rules : \A y \in rules' : y.id = x.id =>
              /\ y.hit_count >= x.hit_count
              /\ y.hit_count # x.hit_count =>
                    \E r \in Reqs : Finishes(r) /\ MadeTo(r, x)
        /\ \A r \in Reqs : \A x \in rules :
              (Finishes(r) /\ MadeTo(r, x) /\ \A q \in Reqs : q # r => req[q].pc \in {"idle", "done"})
                  => \E y \in rules' : y.id = x.id /\ y.hit_count = x.hit_count + 1 ]_vars

\* the Interactions a step commits that name rule x of their token
NewHitsOf(x) ==
    {i \in records' \ records :
        i.token_id = x.token_id /\ i.is_poc_hit /\ i.poc_rule_name = Some(x.name)}

\* C29: a rule hit and its Interaction commit in one transaction: a step
\* that raises the committed hit_count of a rule commits at least as many
\* Interactions of the rule's token with is_poc_hit and the rule's name, so
\* that without renames and clearings hit_count never exceeds their number;
\* and a request that fails, after the increment too, leaves neither the
\* increment nor the Interaction.
C29_HitWithInteraction ==
    [][ /\ \A x \in rules : \A y \in rules' : y.id = x.id =>
              y.hit_count - x.hit_count <= Cardinality(NewHitsOf(x))
        /\ \A r \in Reqs :
              (Finishes(r) /\ \E a \in req'[r].resp : a.kind = "error")
                  => /\ rules' = rules
                     /\ records' = records
                     /\ req'[r].rec = None /\ req'[r].hitw = None ]_vars

\* a request has failed after its hit was flushed; the rule it hit holds the
\* count it had and the request has no Interaction
C29_Witness ==
    \E r \in Reqs :
        /\ req[r].pc = "done"
        /\ \E a \in req[r].resp : a.kind = "error"
        /\ req[r].matched # 0
        /\ \E x \in rules : x.id = req[r].matched /\ x.hit_count = 1
        /\ ~\E i \in records : i.id = r

\* C30: every active rule is reachable at the URL the API returns for it: a
\* request to /c/{code}/p/{name} of an active rule finds that rule, not
\* another and not none, whatever the name, one with a "/" included.
C30_RuleReachable ==
    [][\A r \in Reqs : \A x \in rules :
          ( /\ req[r].pc = "lookup" /\ req'[r].pc # "lookup"
            /\ x.active
            /\ req[r].tid = x.token_id
            /\ req[r].path = AdvertisedPath(x.name) )
              => req'[r].rule = {x}]_vars

====
